---------------------------- MODULE Spec2Model ----------------------------
(***************************************************************************)
(* Model of internal/testvalues/passlib_drupal7.py: the Drupal 7 "$S$"     *)
(* password hash generator (iteration-count codec, crypt3 alphabet codec,  *)
(* iterated SHA-512 chain, framing of the encoded hash).                   *)
(*                                                                         *)
(* Text is a sequence of one-character strings, bytes are 0..255, and a    *)
(* Python int is a record [neg, mag] whose magnitude is a little-endian    *)
(* sequence of base-2^16 limbs, so that 1 << 63 is represented exactly.    *)
(***************************************************************************)
EXTENDS Integers, Sequences, FiniteSets, TLC

\* ------------------------------------------------------------------ bounds
\* Longest byte string handed to encode_crypt3 in the codec specification.
MaxLen == 3
\* Largest alphabet index of an accepted iteration character in a call.
MaxIterIndex == 3
\* Largest iteration count of a direct call of hash_password_drupal7.
MaxRounds == 3

\* --------------------------------------------------------------- constants
SaltLen == 8
HashLen == 43
DigestLen == 64

Alphabet ==
    << ".", "/", "0", "1", "2", "3", "4", "5", "6", "7", "8", "9",
       "A", "B", "C", "D", "E", "F", "G", "H", "I", "J", "K", "L", "M",
       "N", "O", "P", "Q", "R", "S", "T", "U", "V", "W", "X", "Y", "Z",
       "a", "b", "c", "d", "e", "f", "g", "h", "i", "j", "k", "l", "m",
       "n", "o", "p", "q", "r", "s", "t", "u", "v", "w", "x", "y", "z" >>

\* The character salt.ljust pads with.
PadChar == "0"

Prefix == << "$", "S", "$" >>

\* ------------------------------------------------------------ text, bytes
SetMin(S) == CHOOSE x \in S : \A y \in S : x <= y

\* str.find: the lowest 0-based index at which needle occurs in hay, -1 if
\* it does not occur (the empty needle occurs at 0).
Find(hay, needle) ==
    LET n    == Len(needle)
        hits == { k \in 0..(Len(hay) - n) : SubSeq(hay, k + 1, k + n) = needle }
    IN  IF hits = {} THEN -1 ELSE SetMin(hits)

\* Unicode code point of the characters the model uses.
Ord(ch) ==
    LET k == Find(Alphabet, << ch >>)
    IN  IF k = -1 THEN (IF ch = "$" THEN 36 ELSE 233)   \* "$", U+00E9
        ELSE IF k < 2  THEN 46 + k                      \* . /
        ELSE IF k < 12 THEN 48 + (k - 2)                \* 0-9
        ELSE IF k < 38 THEN 65 + (k - 12)               \* A-Z
        ELSE 97 + (k - 38)                              \* a-z

\* str.encode('utf-8') of one code point below U+0800.
Utf8Char(cp) ==
    IF cp < 128 THEN << cp >>
    ELSE << 192 + (cp \div 64), 128 + (cp % 64) >>

\* text.encode('utf-8'): the encodings of text[lo..hi], in order.
RECURSIVE Utf8Range(_, _, _)
Utf8Range(text, lo, hi) ==
    IF lo > hi THEN << >>
    ELSE IF lo = hi THEN Utf8Char(Ord(text[lo]))
    ELSE Utf8Range(text, lo, (lo + hi) \div 2)
            \o Utf8Range(text, ((lo + hi) \div 2) + 1, hi)

Utf8(text) == Utf8Range(text, 1, Len(text))

\* Bitwise or of two naturals.
RECURSIVE BitOr(_, _)
BitOr(a, b) ==
    IF a = 0 THEN b
    ELSE IF b = 0 THEN a
    ELSE (IF (a % 2) + (b % 2) > 0 THEN 1 ELSE 0) + 2 * BitOr(a \div 2, b \div 2)

\* --------------------------------------------------------- Python integers
LimbBase == 2 ^ 16

RECURSIVE MagOf(_)
MagOf(n) == IF n = 0 THEN << >> ELSE << n % LimbBase >> \o MagOf(n \div LimbBase)

PyInt(n) == [neg |-> n < 0, mag |-> MagOf(IF n < 0 THEN 0 - n ELSE n)]

RECURSIVE MulSmall(_, _, _)
MulSmall(mag, m, carry) ==
    IF mag = << >> THEN (IF carry = 0 THEN << >> ELSE << carry >>)
    ELSE LET t == Head(mag) * m + carry
         IN  << t % LimbBase >> \o MulSmall(Tail(mag), m, t \div LimbBase)

\* A 32-bit shift: the shift count is taken modulo 32 and the result is cut
\* to 32 bits.
Shl_Wrap32(mag, n) ==
    LET wide == [k \in 1..((n % 32) \div 16) |-> 0]
                    \o MulSmall(mag, 2 ^ ((n % 32) % 16), 0)
    IN  SubSeq(wide, 1, IF Len(wide) < 2 THEN Len(wide) ELSE 2)

\* mag << n on an unbounded integer.
Shl(mag, n) ==
    [k \in 1..(n \div 16) |-> 0] \o MulSmall(mag, 2 ^ (n % 16), 0)

\* a < b on magnitudes without leading zero limbs.
RECURSIVE MagLess(_, _)
MagLess(a, b) ==
    IF Len(a) # Len(b) THEN Len(a) < Len(b)
    ELSE IF a = << >> THEN FALSE
    ELSE IF a[Len(a)] # b[Len(b)] THEN a[Len(a)] < b[Len(b)]
    ELSE MagLess(SubSeq(a, 1, Len(a) - 1), SubSeq(b, 1, Len(b) - 1))

\* ------------------------------------------------------ get_iteration_count
get_iteration_count(char) ==
    LET index == Find(Alphabet, char)
    IN  IF index = -1 THEN PyInt(-1)
        ELSE [neg |-> FALSE, mag |-> Shl(<< 1 >>, index)]

\* ------------------------------------------------------------ encode_crypt3
\* v |= (b << bits); bits += 8, drops the shift.
Absorb_NoShift(st, b) ==
    [st EXCEPT !.v = BitOr(st.v, b), !.bits = st.bits + 8]

\* v |= (b << bits); bits += 8
Absorb(st, b) ==
    [st EXCEPT !.v = BitOr(st.v, b * (2 ^ st.bits)), !.bits = st.bits + 8]

\* dest.append(alphabet[v & 63])
Put(st) == [st EXCEPT !.dest = Append(st.dest, Alphabet[(st.v % 64) + 1])]

\* The body of `while bits > 6`.
Emit(st) == [Put(st) EXCEPT !.v = st.v \div 64, !.bits = st.bits - 6]

RECURSIVE Drain(_)
Drain(st) == IF st.bits > 6 THEN Drain(Emit(st)) ELSE st

\* for b in raw_bytes[lo..hi]: absorb b, then drain.  The bytes are taken in
\* order; the range is halved, and the left half is evaluated (by the test on
\* bits, which is never negative) before the right half starts, to keep the
\* evaluation shallow.
RECURSIVE PackRange(_, _, _, _)
PackRange(st, raw_bytes, lo, hi) ==
    IF lo > hi THEN st
    ELSE IF lo = hi THEN Drain(Absorb(st, raw_bytes[lo]))
    ELSE LET mid  == (lo + hi) \div 2
             left == PackRange(st, raw_bytes, lo, mid)
         IN  IF left.bits < 0 THEN left
             ELSE PackRange(left, raw_bytes, mid + 1, hi)

Pack(st, raw_bytes) == PackRange(st, raw_bytes, 1, Len(raw_bytes))

EncStart == [dest |-> << >>, v |-> 0, bits |-> 0]

\* The trailing `if bits > 0` emit.
Flush(st) == IF st.bits > 0 THEN Put(st).dest ELSE st.dest

\* The trailing partial symbol is left out.
encode_crypt3_NoFlush(raw_bytes) == Pack(EncStart, raw_bytes).dest

encode_crypt3(raw_bytes) == Flush(Pack(EncStart, raw_bytes))

\* ------------------------------------------------------------------ SHA-512
\* hashlib.sha512(...).digest(): an external primitive.  The model keeps its
\* interface (bytes in, 64 bytes out, deterministic, sensitive to every byte
\* and to their order) and stands a small mixing function in for the
\* compression function.
RECURSIVE Mix(_, _, _)
Mix(bytes, lo, hi) ==
    IF lo > hi THEN 5381
    ELSE IF lo = hi THEN (bytes[lo] * 257 + lo) % 65521
    ELSE LET mid == (lo + hi) \div 2
         IN  (Mix(bytes, lo, mid) * 131 + Mix(bytes, mid + 1, hi) * 31 + 7) % 65521

\* The element of a one-element set.  An operand bound as the element of a
\* set is evaluated once, however often the body uses it.
Only(S) == CHOOSE x \in S : TRUE

sha512(bytes) ==
    Only({ [j \in 1..DigestLen |-> ((h + 1) * (37 * j + 11) + j * j) % 256] :
             h \in { Only({ Mix(b, 1, Len(b)) : b \in { bytes } }) } })

\* ---------------------------------------------------- hash_password_drupal7
\* hasher.update((salt + password).encode('utf-8')); digest = hasher.digest()
FirstDigest(password, salt) == sha512(Utf8(salt \o password))

\* The round hashes the password first and the digest second.
RoundDigest_Swapped(digest, password) == sha512(Utf8(password) \o digest)

\* hasher.update(digest); hasher.update(password.encode('utf-8'))
RoundDigest(digest, password) == sha512(digest \o Utf8(password))

\* range(iterations) yields one value more: i <= iterations.
HasNext_Inclusive(i, iterations) ==
    (~iterations.neg) /\ ~MagLess(iterations.mag, MagOf(i))

\* range(iterations) yields i: i < iterations.
HasNext(i, iterations) == (~iterations.neg) /\ MagLess(MagOf(i), iterations.mag)

RECURSIVE Rounds(_, _, _, _)
Rounds(digest, password, i, iterations) ==
    IF HasNext(i, iterations)
    THEN Rounds(RoundDigest(digest, password), password, i + 1, iterations)
    ELSE digest

hash_password_drupal7(password, salt, iterations) ==
    encode_crypt3(Rounds(FirstDigest(password, salt), password, 0, iterations))

\* ---------------------------------------------------- generate_drupal7_hash
\* salt.rjust(8, '0'): pads on the left.
Canonical_PadLeft(salt) ==
    IF Len(salt) > SaltLen THEN SubSeq(salt, 1, SaltLen)
    ELSE IF Len(salt) < SaltLen
         THEN [k \in 1..(SaltLen - Len(salt)) |-> PadChar] \o salt
         ELSE salt

\* if len(salt) > 8: salt = salt[:8]  elif len(salt) < 8: salt.ljust(8, '0')
Canonical(salt) ==
    IF Len(salt) > SaltLen THEN SubSeq(salt, 1, SaltLen)
    ELSE IF Len(salt) < SaltLen
         THEN salt \o [k \in 1..(SaltLen - Len(salt)) |-> PadChar]
         ELSE salt

\* The slice keeps one character more.
Truncate_OffByOne(hash_portion) ==
    IF Len(hash_portion) > HashLen + 1
    THEN SubSeq(hash_portion, 1, HashLen + 1) ELSE hash_portion

\* if len(hash_portion) > 43: hash_portion = hash_portion[:43]
Truncate(hash_portion) ==
    IF Len(hash_portion) > HashLen
    THEN SubSeq(hash_portion, 1, HashLen) ELSE hash_portion

\* The string is closed with a trailing "$".
Format_Trailing(iteration_char, salt, hash_portion) ==
    Prefix \o iteration_char \o salt \o hash_portion \o << "$" >>

\* f"$S${iteration_char}{salt}{hash_portion}"
Format(iteration_char, salt, hash_portion) ==
    Prefix \o iteration_char \o salt \o hash_portion

\* What a call returns: [raised |-> TRUE] for the ValueError, the string
\* otherwise.
generate_drupal7_hash(password, salt, iteration_char) ==
    LET iterations == get_iteration_count(iteration_char)
    IN  IF iterations = PyInt(-1)
        THEN [raised |-> TRUE, value |-> << >>]
        ELSE [raised |-> FALSE,
              value  |-> Format(iteration_char, Canonical(salt),
                            Truncate(hash_password_drupal7(
                                password, Canonical(salt), iterations)))]

\* ------------------------------------------------------------------- decode
\* The decoder of the alphabet codec: each symbol's 6-bit value is or-ed into
\* the accumulator at the current bit offset, the bit count grows by 6, and
\* whenever it is at least 8 the low byte is emitted and the accumulator is
\* shifted by 8.
UnpackSymbol(st, sym) ==
    LET val  == Find(Alphabet, << sym >>)
        w    == BitOr(st.v, val * (2 ^ st.bits))
        bits == st.bits + 6
    IN  IF bits >= 8
        THEN [out |-> Append(st.out, w % 256), v |-> w \div 256, bits |-> bits - 8]
        ELSE [out |-> st.out, v |-> w, bits |-> bits]

RECURSIVE UnpackRange(_, _, _, _)
UnpackRange(st, text, lo, hi) ==
    IF lo > hi THEN st
    ELSE IF lo = hi THEN UnpackSymbol(st, text[lo])
    ELSE LET mid  == (lo + hi) \div 2
             left == UnpackRange(st, text, lo, mid)
         IN  IF left.bits < 0 THEN left
             ELSE UnpackRange(left, text, mid + 1, hi)

decode(text) ==
    UnpackRange([out |-> << >>, v |-> 0, bits |-> 0], text, 1, Len(text)).out

\* ------------------------------------------------------------------ inputs
\* A character outside ASCII (two bytes in UTF-8) and outside the alphabet.
EAcute == "U+00E9"

Passwords == { << >>, << "p", EAcute >> }

Salts ==
    { << >>,
      << "a", "b", "c" >>,
      << "r", "a", "n", "d", "o", "m", "s", "a" >>,
      << "r", "a", "n", "d", "o", "m", "s", "a", "l", "t", "i", "s" >> }

Symbols == { << Alphabet[k] >> : k \in 1..64 }

\* Strings that are not one symbol of the alphabet.
NonSymbols ==
    { << >>, << "$" >>, << EAcute >>, << ".", "/" >>, << "A", "B" >>,
      << "z", "z" >>, << "/", "." >>, << "E", "$" >> }

CallIterChars ==
    { << Alphabet[k] >> : k \in 1..(MaxIterIndex + 1) }
        \cup { << >>, << "$" >>, << EAcute >>, << ".", "/" >> }

Calls == { 1, 2 }

\* ------------------------------------------------------------------- state
VARIABLES
    pc,            \* where each call stands
    entry,         \* the function the caller invoked
    args,          \* the arguments the caller passed
    iterations,    \* local of generate_drupal7_hash / parameter of hash_password_drupal7
    salt,          \* the salt parameter, reassigned by the canonicalization
    digest,        \* local of hash_password_drupal7
    i,             \* the next value of range(iterations)
    nsha,          \* number of hashlib.sha512() objects the call has created
    pos,           \* position of the `for b in raw_bytes` iterator
    enc,           \* locals dest, v, bits of encode_crypt3
    hash_portion,  \* local of generate_drupal7_hash
    result,        \* the returned string
    countTest,     \* a call of get_iteration_count on its own
    codecTest,     \* a call of encode_crypt3 on its own, then decoded
    truncTest      \* two digests framed with the same parameters

callVars == << pc, entry, args, iterations, salt, digest, i, nsha, pos, enc,
               hash_portion, result >>
testVars == << countTest, codecTest, truncTest >>
vars == << pc, entry, args, iterations, salt, digest, i, nsha, pos, enc,
           hash_portion, result, countTest, codecTest, truncTest >>

NoArgs == [password |-> << >>, salt |-> << >>, iteration_char |-> << >>]

CountIdle == [phase |-> "idle", char |-> << >>, count |-> PyInt(0)]
CodecIdle == [phase |-> "idle", raw |-> << >>, text |-> << >>, decoded |-> << >>]
TruncIdle == [phase |-> "idle", iteration_char |-> << >>, salt |-> << >>,
              digestA |-> << >>, digestB |-> << >>,
              hashA |-> << >>, hashB |-> << >>]

TestsIdle ==
    /\ countTest = CountIdle
    /\ codecTest = CodecIdle
    /\ truncTest = TruncIdle

\* The locals of a call before it has assigned any of them.
LocalsInit ==
    /\ salt = [c \in Calls |-> args[c].salt]
    /\ digest = [c \in Calls |-> << >>]
    /\ i = [c \in Calls |-> 0]
    /\ nsha = [c \in Calls |-> 0]
    /\ pos = [c \in Calls |-> 1]
    /\ enc = [c \in Calls |-> EncStart]
    /\ hash_portion = [c \in Calls |-> << >>]
    /\ result = [c \in Calls |-> << >>]

GenerateArgs ==
    [password : Passwords, salt : Salts, iteration_char : CallIterChars]

HashArgs == [password : Passwords, salt : Salts, iteration_char : { << >> }]

\* generate_drupal7_hash(password, salt, iteration_char) is called once.
InitGenerate ==
    /\ entry = [c \in Calls |-> IF c = 1 THEN "generate" ELSE "none"]
    /\ pc = [c \in Calls |-> IF c = 1 THEN "gen" ELSE "idle"]
    /\ \E a \in GenerateArgs : args = [c \in Calls |-> IF c = 1 THEN a ELSE NoArgs]
    /\ iterations = [c \in Calls |-> PyInt(0)]
    /\ LocalsInit

\* hash_password_drupal7(password, salt, iterations) is called once, directly.
InitHash ==
    /\ entry = [c \in Calls |-> IF c = 1 THEN "hash" ELSE "none"]
    /\ pc = [c \in Calls |-> IF c = 1 THEN "hash" ELSE "idle"]
    /\ \E a \in HashArgs : args = [c \in Calls |-> IF c = 1 THEN a ELSE NoArgs]
    /\ \E n \in 0..MaxRounds :
         iterations = [c \in Calls |-> IF c = 1 THEN PyInt(n) ELSE PyInt(0)]
    /\ LocalsInit

Init == (InitGenerate \/ InitHash) /\ TestsIdle

\* ------------------------------------------------- generate_drupal7_hash
\* The activation record that holds the locals of call c.
Frame_Shared(c) == 1

Frame(c) == c

\* iterations = get_iteration_count(iteration_char); not -1
GenResolve(c) ==
    /\ pc[c] = "gen"
    /\ get_iteration_count(args[c].iteration_char) # PyInt(-1)
    /\ iterations' = [iterations EXCEPT ![c] = get_iteration_count(args[c].iteration_char)]
    /\ pc' = [pc EXCEPT ![c] = "canon"]
    /\ UNCHANGED << entry, args, salt, digest, i, nsha, pos, enc, hash_portion,
                    result, testVars >>

\* iterations == -1: raise ValueError
GenRaise(c) ==
    /\ pc[c] = "gen"
    /\ get_iteration_count(args[c].iteration_char) = PyInt(-1)
    /\ iterations' = [iterations EXCEPT ![c] = PyInt(-1)]
    /\ pc' = [pc EXCEPT ![c] = "raised"]
    /\ UNCHANGED << entry, args, salt, digest, i, nsha, pos, enc, hash_portion,
                    result, testVars >>

\* Ensure salt is exactly 8 characters, then call hash_password_drupal7.
Canonicalize(c) ==
    /\ pc[c] = "canon"
    /\ salt' = [salt EXCEPT ![c] = Canonical(salt[c])]
    /\ pc' = [pc EXCEPT ![c] = "hash"]
    /\ UNCHANGED << entry, args, iterations, digest, i, nsha, pos, enc,
                    hash_portion, result, testVars >>

\* Initial hash: SHA-512(salt + password)
HashFirst(c) ==
    /\ pc[c] = "hash"
    /\ digest' = [digest EXCEPT ![c] = FirstDigest(args[c].password, salt[c])]
    /\ nsha' = [nsha EXCEPT ![c] = nsha[c] + 1]
    /\ i' = [i EXCEPT ![c] = 0]
    /\ pc' = [pc EXCEPT ![c] = "loop"]
    /\ UNCHANGED << entry, args, iterations, salt, pos, enc, hash_portion,
                    result, testVars >>

\* One pass of `for i in range(iterations)`.
HashRound(c) ==
    /\ pc[c] = "loop"
    /\ HasNext(i[c], iterations[c])
    /\ digest' = [digest EXCEPT ![c] = RoundDigest(digest[c], args[c].password)]
    /\ nsha' = [nsha EXCEPT ![c] = nsha[c] + 1]
    /\ i' = [i EXCEPT ![c] = i[c] + 1]
    /\ UNCHANGED << pc, entry, args, iterations, salt, pos, enc, hash_portion,
                    result, testVars >>

\* range(iterations) is exhausted: encode_crypt3(digest) is entered and its
\* locals dest, v, bits are created.
HashExit(c) ==
    /\ pc[c] = "loop"
    /\ ~HasNext(i[c], iterations[c])
    /\ enc' = [enc EXCEPT ![Frame(c)] = EncStart]
    /\ pos' = [pos EXCEPT ![c] = 1]
    /\ pc' = [pc EXCEPT ![c] = "for"]
    /\ UNCHANGED << entry, args, iterations, salt, digest, i, nsha,
                    hash_portion, result, testVars >>

\* for b in raw_bytes: v |= (b << bits); bits += 8
EncByte(c) ==
    /\ pc[c] = "for"
    /\ pos[c] <= Len(digest[c])
    /\ enc' = [enc EXCEPT ![Frame(c)] = Absorb(enc[Frame(c)], digest[c][pos[c]])]
    /\ pos' = [pos EXCEPT ![c] = pos[c] + 1]
    /\ pc' = [pc EXCEPT ![c] = "while"]
    /\ UNCHANGED << entry, args, iterations, salt, digest, i, nsha,
                    hash_portion, result, testVars >>

\* One pass of `while bits > 6`.
EncEmit(c) ==
    /\ pc[c] = "while"
    /\ enc[Frame(c)].bits > 6
    /\ enc' = [enc EXCEPT ![Frame(c)] = Emit(enc[Frame(c)])]
    /\ UNCHANGED << pc, entry, args, iterations, salt, digest, i, nsha, pos,
                    hash_portion, result, testVars >>

\* `while bits > 6` ends: back to the for loop.
EncWhileExit(c) ==
    /\ pc[c] = "while"
    /\ ~(enc[Frame(c)].bits > 6)
    /\ pc' = [pc EXCEPT ![c] = "for"]
    /\ UNCHANGED << entry, args, iterations, salt, digest, i, nsha, pos, enc,
                    hash_portion, result, testVars >>

\* raw_bytes is exhausted: the trailing emit and ''.join(dest); the direct
\* caller of hash_password_drupal7 gets the text.
EncReturnToCaller(c) ==
    /\ pc[c] = "for"
    /\ pos[c] > Len(digest[c])
    /\ entry[c] = "hash"
    /\ result' = [result EXCEPT ![c] = Flush(enc[Frame(c)])]
    /\ pc' = [pc EXCEPT ![c] = "done"]
    /\ UNCHANGED << entry, args, iterations, salt, digest, i, nsha, pos, enc,
                    hash_portion, testVars >>

\* raw_bytes is exhausted: the trailing emit and ''.join(dest);
\* generate_drupal7_hash gets hash_portion.
EncReturn(c) ==
    /\ pc[c] = "for"
    /\ pos[c] > Len(digest[c])
    /\ entry[c] = "generate"
    /\ hash_portion' = [hash_portion EXCEPT ![c] = Flush(enc[Frame(c)])]
    /\ pc' = [pc EXCEPT ![c] = "frame"]
    /\ UNCHANGED << entry, args, iterations, salt, digest, i, nsha, pos, enc,
                    result, testVars >>

\* Truncate to 43 characters and return the formatted string.
Finish(c) ==
    /\ pc[c] = "frame"
    /\ hash_portion' = [hash_portion EXCEPT ![c] = Truncate(hash_portion[c])]
    /\ result' = [result EXCEPT ![c] =
                     Format(args[c].iteration_char, salt[c], Truncate(hash_portion[c]))]
    /\ pc' = [pc EXCEPT ![c] = "done"]
    /\ UNCHANGED << entry, args, iterations, salt, digest, i, nsha, pos, enc,
                    testVars >>

GenerateStep(c) ==
    \/ GenResolve(c)
    \/ GenRaise(c)
    \/ Canonicalize(c)
    \/ HashFirst(c)
    \/ HashRound(c)
    \/ HashExit(c)
    \/ EncByte(c)
    \/ EncEmit(c)
    \/ EncWhileExit(c)
    \/ EncReturn(c)
    \/ Finish(c)

Step(c) == GenerateStep(c) \/ EncReturnToCaller(c)

Next == \E c \in Calls : Step(c)

Spec == Init /\ [][Next]_vars

\* A call is a sequential run of the interpreter: it keeps taking steps until
\* it returns or raises.
FairSpec == Spec /\ \A c \in Calls : WF_vars(Step(c))

\* ------------------------------------------------- two interleaved calls
TwoArgs ==
    [password : { << "p", EAcute >> },
     salt : { << "a", "b", "c" >>,
              << "r", "a", "n", "d", "o", "m", "s", "a", "l", "t", "i", "s" >> },
     iteration_char : { << "." >>, << "$" >> }]

\* generate_drupal7_hash is called twice, from two threads.
InitTwo ==
    /\ entry = [c \in Calls |-> "generate"]
    /\ pc = [c \in Calls |-> "gen"]
    /\ args \in [Calls -> TwoArgs]
    /\ iterations = [c \in Calls |-> PyInt(0)]
    /\ LocalsInit
    /\ TestsIdle

NextTwo == \E c \in Calls : GenerateStep(c)

SpecTwo == InitTwo /\ [][NextTwo]_vars

\* -------------------------------------- the functions called on their own
NoCall ==
    /\ entry = [c \in Calls |-> "none"]
    /\ pc = [c \in Calls |-> "idle"]
    /\ args = [c \in Calls |-> NoArgs]
    /\ iterations = [c \in Calls |-> PyInt(0)]
    /\ LocalsInit

\* get_iteration_count(char)
InitIter ==
    /\ NoCall
    /\ \E ch \in Symbols \cup NonSymbols :
         countTest = [phase |-> "ready", char |-> ch, count |-> PyInt(0)]
    /\ codecTest = CodecIdle
    /\ truncTest = TruncIdle

CallCount ==
    /\ countTest.phase = "ready"
    /\ countTest' = [countTest EXCEPT
                        !.phase = "done",
                        !.count = get_iteration_count(countTest.char)]
    /\ UNCHANGED << callVars, codecTest, truncTest >>

NextIter == CallCount

SpecIter == InitIter /\ [][NextIter]_vars

\* encode_crypt3(raw_bytes), and the decoder applied to what it returns
ByteVals == { 0, 1, 63, 64, 128, 255 }

Digests == { sha512(Utf8(s)) : s \in Salts }

CodecInputs == UNION { [1..n -> ByteVals] : n \in 0..MaxLen } \cup Digests

InitCodec ==
    /\ NoCall
    /\ countTest = CountIdle
    /\ \E raw \in CodecInputs :
         codecTest = [phase |-> "ready", raw |-> raw, text |-> << >>,
                      decoded |-> << >>]
    /\ truncTest = TruncIdle

Encode ==
    /\ codecTest.phase = "ready"
    /\ codecTest' = [codecTest EXCEPT
                        !.phase = "encoded",
                        !.text = encode_crypt3(codecTest.raw)]
    /\ UNCHANGED << callVars, countTest, truncTest >>

Decode ==
    /\ codecTest.phase = "encoded"
    /\ codecTest' = [codecTest EXCEPT
                        !.phase = "decoded",
                        !.decoded = decode(codecTest.text)]
    /\ UNCHANGED << callVars, countTest, truncTest >>

NextCodec == Encode \/ Decode

SpecCodec == InitCodec /\ [][NextCodec]_vars

\* Two 64-byte digests, the second differing from the first in up to
\* MaxChanges bytes, encoded, truncated and framed with the same iteration
\* character and salt.
MaxChanges == 2

ChangedBytes == { 1, 32, 33, 34, 64 }

Deltas == { 1, 4, 128 }

RECURSIVE Variants(_, _)
Variants(S, n) ==
    IF n = 0 THEN S
    ELSE Variants(S \cup { [d EXCEPT ![k] = (d[k] + x) % 256] :
                             d \in S, k \in ChangedBytes, x \in Deltas }, n - 1)

InitTrunc ==
    /\ NoCall
    /\ countTest = CountIdle
    /\ codecTest = CodecIdle
    /\ \E a \in Digests, s \in { Canonical(x) : x \in Salts } :
         \E b \in Variants({ a }, MaxChanges) :
             truncTest = [phase |-> "ready", iteration_char |-> << "E" >>,
                          salt |-> s, digestA |-> a, digestB |-> b,
                          hashA |-> << >>, hashB |-> << >>]

\* return encode_crypt3(digest), then the truncation and the f-string
Assemble ==
    /\ truncTest.phase = "ready"
    /\ truncTest' = [truncTest EXCEPT
                        !.phase = "done",
                        !.hashA = Format(truncTest.iteration_char, truncTest.salt,
                                         Truncate(encode_crypt3(truncTest.digestA))),
                        !.hashB = Format(truncTest.iteration_char, truncTest.salt,
                                         Truncate(encode_crypt3(truncTest.digestB)))]
    /\ UNCHANGED << callVars, countTest, codecTest >>

NextTrunc == Assemble

SpecTrunc == InitTrunc /\ [][NextTrunc]_vars

\* =================================================================== claims
Generated(c) == entry[c] = "generate"

PastCanon == { "hash", "loop", "for", "while", "frame", "done" }
PastLoop  == { "for", "while", "frame", "done" }

\* d0 = SHA-512(salt || password), d(n+1) = SHA-512(d(n) || password)
RECURSIVE ChainRef(_, _, _)
ChainRef(s, p, n) ==
    IF n = 0 THEN sha512(Utf8(s) \o Utf8(p))
    ELSE sha512(ChainRef(s, p, n - 1) \o Utf8(p))

\* Bit m of the integer that b is when read little-endian; 0 beyond its end.
BitOf(b, m) ==
    IF (m \div 8) < Len(b) THEN (b[(m \div 8) + 1] \div (2 ^ (m % 8))) % 2 ELSE 0

\* The value of bits 6k..6k+5.
SixBits(b, k) ==
    BitOf(b, 6 * k) + 2 * BitOf(b, 6 * k + 1) + 4 * BitOf(b, 6 * k + 2)
        + 8 * BitOf(b, 6 * k + 3) + 16 * BitOf(b, 6 * k + 4) + 32 * BitOf(b, 6 * k + 5)

\* mag + mag, limb by limb with carry.
RECURSIVE DoubleMag(_, _)
DoubleMag(mag, carry) ==
    IF mag = << >> THEN (IF carry = 0 THEN << >> ELSE << carry >>)
    ELSE LET t == Head(mag) + Head(mag) + carry
         IN  << t % LimbBase >> \o DoubleMag(Tail(mag), t \div LimbBase)

Repeat(ch, n) == [k \in 1..n |-> ch]

\* ----------------------------------------------------------------------- C1
\* C1: for a single alphabet symbol as iteration_char, and any password and
\* salt, generate_drupal7_hash does not raise and returns exactly 55
\* characters: "$S$", the iteration character, the 8-character canonical salt
\* (the first 8 characters of a salt of 8 or more), and the first 43 of the 86
\* characters of encode_crypt3(final digest); nothing follows them.
C1_Layout ==
    \A c \in Calls :
        (Generated(c) /\ args[c].iteration_char \in Symbols) =>
            /\ pc[c] # "raised"
            /\ pc[c] = "done" =>
                 /\ Len(result[c]) = 55
                 /\ SubSeq(result[c], 1, 3) = << "$", "S", "$" >>
                 /\ << result[c][4] >> = args[c].iteration_char
                 /\ Len(salt[c]) = 8
                 /\ SubSeq(result[c], 5, 12) = salt[c]
                 /\ Len(args[c].salt) >= 8 => salt[c] = SubSeq(args[c].salt, 1, 8)
                 /\ Len(digest[c]) = 64
                 /\ Len(encode_crypt3(digest[c])) = 86
                 /\ SubSeq(result[c], 13, 55) = SubSeq(encode_crypt3(digest[c]), 1, 43)

C1_Witness ==
    \E c \in Calls :
        /\ Generated(c) /\ pc[c] = "done"
        /\ args[c].iteration_char = << "1" >>
        /\ Len(args[c].salt) > 8
        /\ Len(result[c]) = 55

\* ----------------------------------------------------------------------- C2
\* C2 as stated: a salt shorter than 8 characters is right-padded to 8 with
\* the first symbol of the alphabet ("."), and the padded salt is the one
\* hashed and the one written into the output.
C2_PadsWithFirstSymbol ==
    \A c \in Calls :
        (Generated(c) /\ Len(args[c].salt) < 8 /\ pc[c] \in PastCanon) =>
            salt[c] = args[c].salt \o Repeat(Alphabet[1], 8 - Len(args[c].salt))

\* C2 as amended: a salt shorter than 8 characters is right-padded to 8 with
\* the character "0" (the third symbol of the alphabet, value 2), and the
\* padded salt is the one hashed and the one written into the output.
C2_PadsWithZeroDigit ==
    \A c \in Calls :
        (Generated(c) /\ Len(args[c].salt) < 8) =>
            LET padded == args[c].salt \o Repeat("0", 8 - Len(args[c].salt))
            IN  /\ Find(Alphabet, << "0" >>) = 2
                /\ pc[c] \in PastCanon => salt[c] = padded
                /\ (pc[c] = "loop" /\ i[c] = 0) =>
                       digest[c] = sha512(Utf8(padded \o args[c].password))
                /\ pc[c] \in PastLoop =>
                       digest[c] = ChainRef(padded, args[c].password, i[c])
                /\ pc[c] = "done" => SubSeq(result[c], Len(result[c]) - 50,
                                            Len(result[c]) - 43) = padded

C2_Witness ==
    \E c \in Calls :
        /\ Generated(c) /\ pc[c] = "done"
        /\ args[c].salt = << "a", "b", "c" >>
        /\ salt[c] = << "a", "b", "c", "0", "0", "0", "0", "0" >>

\* ----------------------------------------------------------------------- C3
\* C3: for an iteration_char that is not exactly one symbol of the alphabet,
\* get_iteration_count returns -1 and generate_drupal7_hash raises before it
\* canonicalizes the salt or hashes, and returns no string.
C3_RejectsNonSymbols ==
    \A c \in Calls :
        (Generated(c) /\ args[c].iteration_char \notin Symbols /\ pc[c] # "gen") =>
            /\ iterations[c] = PyInt(-1)
            /\ pc[c] = "raised"
            /\ nsha[c] = 0
            /\ salt[c] = args[c].salt
            /\ result[c] = << >>

\* ----------------------------------------------------------------------- C4
\* C4: for the symbol at 0-based index n of the alphabet get_iteration_count
\* is 2^n: 1 for the first symbol and twice the count of the symbol before
\* it for every other, computed without any fixed width; it is never 0, no
\* other symbol has the same count, and "E" gives 65536.
C4_PowersOfTwo ==
    (countTest.phase = "done" /\ countTest.char \in Symbols) =>
        LET n == Find(Alphabet, countTest.char)
        IN  /\ n \in 0..63
            /\ ~countTest.count.neg
            /\ countTest.count.mag # << >>
            /\ n = 0 => countTest.count = PyInt(1)
            /\ n > 0 => countTest.count.mag =
                            DoubleMag(get_iteration_count(<< Alphabet[n] >>).mag, 0)
            /\ Len(countTest.count.mag) = (n \div 16) + 1
            /\ \A s \in Symbols \ { countTest.char } :
                   get_iteration_count(s) # countTest.count
            /\ countTest.char = << "E" >> => countTest.count = PyInt(65536)

C4_Witness ==
    /\ countTest.phase = "done"
    /\ countTest.char = << "z" >>
    /\ countTest.count = [neg |-> FALSE, mag |-> << 0, 0, 0, 32768 >>]

\* ----------------------------------------------------------------------- C5
\* C5: encode_crypt3 of n bytes has ceil(8n/6) symbols (0 for no bytes, 86
\* for 64), and symbol k is the alphabet symbol whose index is bits 6k..6k+5
\* of the bytes read as a little-endian integer, zero beyond bit 8n.
C5_Packing ==
    (codecTest.phase \in { "encoded", "decoded" }) =>
        LET n == Len(codecTest.raw)
        IN  /\ Len(codecTest.text) = (8 * n + 5) \div 6
            /\ n = 0 => codecTest.text = << >>
            /\ n = 64 => Len(codecTest.text) = 86
            /\ \A k \in 1..Len(codecTest.text) :
                   codecTest.text[k] = Alphabet[SixBits(codecTest.raw, k - 1) + 1]

C5_Witness ==
    /\ codecTest.phase = "encoded"
    /\ Len(codecTest.raw) = 64
    /\ Len(codecTest.text) = 86

\* ----------------------------------------------------------------------- C6
\* C6: the decoder applied to encode_crypt3(b) gives back every byte of b in
\* order: b is a prefix of the decoded bytes.
C6_RoundTrip ==
    (codecTest.phase = "decoded") =>
        /\ Len(codecTest.decoded) >= Len(codecTest.raw)
        /\ SubSeq(codecTest.decoded, 1, Len(codecTest.raw)) = codecTest.raw

C6_Witness ==
    /\ codecTest.phase = "decoded"
    /\ codecTest.raw = << 255, 1, 128 >>
    /\ codecTest.decoded = << 255, 1, 128 >>

\* ----------------------------------------------------------------------- C7
\* C7: hash_password_drupal7 computes d0 = SHA-512(salt || password) and then
\* d(n+1) = SHA-512(d(n) || password) exactly `iterations` times, on the raw
\* digest bytes, and encodes the last digest: SHA-512 runs iterations + 1
\* times, and with iterations = 0 the encoded digest is d0.
C7_Chain ==
    \A c \in Calls :
        /\ pc[c] = "loop" =>
             /\ digest[c] = ChainRef(salt[c], args[c].password, i[c])
             /\ nsha[c] = i[c] + 1
        /\ pc[c] \in PastLoop =>
             /\ MagOf(i[c]) = iterations[c].mag
             /\ nsha[c] = i[c] + 1
             /\ digest[c] = ChainRef(salt[c], args[c].password, i[c])
        /\ (pc[c] = "done" /\ entry[c] = "hash") =>
             /\ result[c] = encode_crypt3(ChainRef(salt[c], args[c].password, i[c]))
             /\ iterations[c] = PyInt(0) =>
                    result[c] = encode_crypt3(
                        sha512(Utf8(args[c].salt) \o Utf8(args[c].password)))

C7_Witness ==
    \E c \in Calls :
        /\ pc[c] = "done" /\ entry[c] = "hash"
        /\ iterations[c] = PyInt(3)
        /\ nsha[c] = 4
        /\ args[c].password # << >>

\* ----------------------------------------------------------------------- C8
Finished(c) == pc[c] \in { "idle", "done", "raised" }

\* C8: every call ends: with a string after as many hash rounds as the
\* iteration count (the round counter never decreases), or with the error
\* when the iteration character is rejected; each pass of the emit loop of
\* encode_crypt3 lowers the bit count by 6.
C8_Termination ==
    /\ \A c \in Calls : <>Finished(c)
    /\ [](\A c \in Calls :
            /\ pc[c] = "done" => (MagOf(i[c]) = iterations[c].mag /\ result[c] # << >>)
            /\ pc[c] = "raised" => (iterations[c] = PyInt(-1) /\ result[c] = << >>))
    /\ [][\A c \in Calls :
            /\ i'[c] >= i[c]
            /\ (pc[c] = "while" /\ pc'[c] = "while") =>
                   (enc[c].bits > 6 /\ enc'[c].bits = enc[c].bits - 6)]_vars

C8_Witness ==
    \E c \in Calls :
        /\ Generated(c) /\ pc[c] = "done"
        /\ i[c] = 8
        /\ iterations[c] = PyInt(8)

\* ----------------------------------------------------------------------- C9
Locals(c) ==
    << pc[c], iterations[c], salt[c], digest[c], i[c], nsha[c], pos[c], enc[c],
       hash_portion[c], result[c] >>

\* C9: calls whose steps interleave return what they return when run alone:
\* a step of one call changes no local of another, a call that ends returns
\* generate_drupal7_hash of its own arguments (or raises as it would alone),
\* and calls with the same arguments return the same string.
C9_Isolation ==
    /\ [](\A c \in Calls :
            LET alone == generate_drupal7_hash(args[c].password, args[c].salt,
                                               args[c].iteration_char)
            IN  /\ pc[c] = "done" => (~alone.raised /\ result[c] = alone.value)
                /\ pc[c] = "raised" => alone.raised)
    /\ [](\A c, d \in Calls :
            (pc[c] = "done" /\ pc[d] = "done" /\ args[c] = args[d]) =>
                result[c] = result[d])
    /\ [][\A c, d \in Calls :
            (GenerateStep(c) /\ d # c) => Locals(d)' = Locals(d)]_vars

C9_Witness ==
    /\ pc[1] = "while" /\ pc[2] = "while"
    /\ pos[1] = 40 /\ pos[2] = 12
    /\ args[1] = args[2]

\* ---------------------------------------------------------------------- C10
\* The digests agree on bytes 0..31 and on the low 2 bits of byte 32.
Low258Agree(a, b) ==
    /\ \A k \in 1..32 : a[k] = b[k]
    /\ a[33] % 4 = b[33] % 4

\* C10: the digest text of the output is the first 43 of the 86 symbols of
\* encode_crypt3(digest), so it depends on the low 258 bits of the digest
\* only: digests whose encodings agree on the first 43 symbols, though they
\* differ later, give the same string for the same iteration character and
\* salt.
C10_Truncation ==
    (truncTest.phase = "done") =>
        LET textA == encode_crypt3(truncTest.digestA)
            textB == encode_crypt3(truncTest.digestB)
        IN  /\ Len(textA) = 86 /\ Len(textB) = 86
            /\ SubSeq(truncTest.hashA, 13, Len(truncTest.hashA)) = SubSeq(textA, 1, 43)
            /\ SubSeq(truncTest.hashB, 13, Len(truncTest.hashB)) = SubSeq(textB, 1, 43)
            /\ Low258Agree(truncTest.digestA, truncTest.digestB) <=>
                   SubSeq(textA, 1, 43) = SubSeq(textB, 1, 43)
            /\ SubSeq(textA, 1, 43) = SubSeq(textB, 1, 43) =>
                   truncTest.hashA = truncTest.hashB

C10_Witness ==
    /\ truncTest.phase = "done"
    /\ truncTest.digestA # truncTest.digestB
    /\ truncTest.digestA[33] # truncTest.digestB[33]
    /\ truncTest.hashA = truncTest.hashB

=============================================================================
